---- MODULE Spec2Model ----
(***************************************************************************)
(* Real-time polling backend: the vote ledger (VoteController.submitVote), *)
(* the publication flag of polls, the Socket.IO poll rooms and the         *)
(* broadcastVoteUpdate fan-out.                                            *)
(*                                                                         *)
(* Every handler is an async function.  One action of the model is the     *)
(* code that runs between two awaits of a store call together with the     *)
(* store call it resumes from: the store executes calls of different       *)
(* handlers in any order, so between two actions of one handler any action *)
(* of another handler may run.                                             *)
(***************************************************************************)
EXTENDS Integers, FiniteSets, Sequences, TLC

\* Number of changes of the vote ledger a behaviour may make: a request starts
\* only while the changes made and the requests in flight stay within it.
MaxWrites == 2

Users == {"u1", "u2"}
Polls == {"p1", "p2"}
Options == {"a", "b", "c"}
\* Concurrent HTTP request handlers and WebSocket connections.
Slots == {"r1", "r2"}
Sessions == {"s1", "s2"}

\* poll_options.poll_id: the poll an option belongs to.
\* polls.creator_id: createPoll stores req.user.id and no route changes it.
CreatorOf(p) == IF p = "p1" THEN "u1" ELSE "u2"

PollOf(o) == IF o \in {"a", "b"} THEN "p1" ELSE "p2"

OptionsOf(p) == {o \in Options : PollOf(o) = p}

NoRow == [id |-> 0, user |-> "none", option |-> "none"]

NoSnap == [ver |-> -1, counts |-> [o \in {} |-> 0], total |-> 0]

VARIABLES
    polls,      \* polls[p]: "absent", "draft" (is_published = false) or "published"
    votes,      \* the votes table: a set of rows [id, user, option]
    pollVer,    \* pollVer[p]: number of committed vote writes on poll p (history)
    unsent,     \* unsent[p]: no poll-updated emitted so far carried p's current ledger state (history)
    req,        \* req[r]: the submitVote handler running in slot r
    conn,       \* conn[s]: "closed", "auth" (the handshake awaits user.findUnique) or "connected"
    cred,       \* cred[s]: the token of the handshake in slot s: "none", "bad", "ghost" (valid, of no user) or "valid"
    err,        \* err[s]: the 'error' event that answered the latest join-poll of s, "none" when it got none
    rooms,      \* rooms[p]: io.sockets.adapter.rooms.get(`poll-${p}`)
    cpr,        \* cpr[s]: socket.currentPollRooms
    joining,    \* joining[s]: the join-poll handler of s awaiting its poll lookup
    preq,       \* preq[k]: the updatePoll, deletePoll or publishPoll request running in slot k
    results,    \* results: the body of the latest getPollResults response
    notice,     \* notice[p]: the presence notification the latest join, leave or disconnect emitted into p's room
    last        \* last[s][p]: the event s received last for p as a member of p's room

vars == <<polls, votes, pollVer, unsent, req, preq, results, conn, cred, err, rooms, cpr,
          joining, notice, last>>

voteVars == <<votes, pollVer, unsent, req>>
httpVars == <<preq, results>>
sockVars == <<conn, cred, err, rooms, cpr, joining, notice, last>>

IdleReq == [pc |-> "idle", user |-> "none", poll |-> "none", option |-> "none",
            existing |-> NoRow, status |-> "none", wrote |-> FALSE, calls |-> 0,
            snap |-> NoSnap]

IdlePollReq == [pc |-> "idle", user |-> "none", poll |-> "none", op |-> "none",
                isPublished |-> "undefined", status |-> "none"]

\* No getPollResults response, or one that carried an error.
NoResults == [poll |-> "none", totalVotes |-> 0, options |-> [o \in {} |-> 0]]

NoJoin == [poll |-> "none", snap |-> NoSnap]

\* No presence notification reached a member of the room.
NoNotice == [name |-> "none", userCount |-> 0, from |-> "none", to |-> {}]

\* An event a socket received: its name and the PollData it carried.
NoEvent == [name |-> "none", data |-> NoSnap]

Init ==
    /\ polls = [p \in Polls |-> "absent"]
    /\ votes = {}
    /\ pollVer = [p \in Polls |-> 0]
    /\ unsent = [p \in Polls |-> FALSE]
    /\ req = [r \in Slots |-> IdleReq]
    /\ preq = [k \in Slots |-> IdlePollReq]
    /\ results = NoResults
    /\ conn = [s \in Sessions |-> "closed"]
    /\ cred = [s \in Sessions |-> "none"]
    /\ err = [s \in Sessions |-> "none"]
    /\ rooms = [p \in Polls |-> {}]
    /\ cpr = [s \in Sessions |-> {}]
    /\ joining = [s \in Sessions |-> NoJoin]
    /\ notice = [p \in Polls |-> NoNotice]
    /\ last = [s \in Sessions |-> [p \in Polls |-> NoEvent]]

----------------------------------------------------------------------------
(* The tally the three readers compute from option._count.votes.           *)

RECURSIVE SumCounts(_, _)
SumCounts(f, S) ==
    IF S = {} THEN 0
    ELSE LET o == CHOOSE x \in S : TRUE IN f[o] + SumCounts(f, S \ {o})

VoteCount(o) == Cardinality({v \in votes : v.option = o})

PollData(p) ==
    LET counts == [o \in OptionsOf(p) |-> VoteCount(o)]
    IN [ver |-> pollVer[p], counts |-> counts, total |-> SumCounts(counts, OptionsOf(p))]

\* Rows of user u on any option of poll p: the where clause of vote.findFirst.
VotesOf(u, p) == {v \in votes : v.user = u /\ PollOf(v.option) = p}


----------------------------------------------------------------------------
(* getPollResults (PollController): one read of the poll with its options' *)
(* _count.votes, then the result computed from it.                         *)

\* x.toFixed(1) for x = num / den >= 0: the decimal text of x with one digit
\* after the point, kept as the number of tenths nearest to x (the upper one
\* of two equally near) and the number of digits after the point.
ToFixed1(num, den) == [tenths |-> (20 * num + den) \div (2 * den), decimals |-> 1]

\* As Percentage, with the digits after the first decimal cut off.
PercentageTruncated(count, total) ==
    IF total > 0 THEN [tenths |-> (1000 * count) \div total, decimals |-> 1]
    ELSE [tenths |-> 0, decimals |-> 0]

\* totalVotes > 0 ? ((option._count.votes / totalVotes) * 100).toFixed(1) : '0'
Percentage(count, total) ==
    IF total > 0 THEN ToFixed1(100 * count, total)
    ELSE [tenths |-> 0, decimals |-> 0]

\* getPollResults: 404 for a missing poll, otherwise totalVotes is the sum of
\* the options' vote counts and every option reports its count and percentage.
\* The route asks neither for a user nor for a published poll.
GetPollResults(p, ok) ==
    /\ results' =
          IF ~ok \/ polls[p] = "absent" THEN NoResults
          ELSE LET totalVotes == SumCounts([o \in OptionsOf(p) |-> VoteCount(o)],
                                           OptionsOf(p))
               IN [poll |-> p, totalVotes |-> totalVotes,
                   options |-> [o \in OptionsOf(p) |->
                                   [voteCount |-> VoteCount(o),
                                    percentage |-> Percentage(VoteCount(o), totalVotes)]]]
    /\ UNCHANGED <<preq, polls, voteVars, sockVars>>

----------------------------------------------------------------------------
(* Poll CRUD (PollController): each handler is one store write.            *)

\* createPoll: the transaction inserts the poll with the isPublished of the body.
CreatePoll(p, isPublished) ==
    /\ polls[p] = "absent"
    /\ polls' = [polls EXCEPT ![p] = IF isPublished THEN "published" ELSE "draft"]
    /\ UNCHANGED <<httpVars, voteVars, sockVars>>

\* poll.update with data: { ...(isPublished !== undefined && { isPublished }) }.
UpdatedPolls(p, isPublished) ==
    [polls EXCEPT ![p] = CASE isPublished = "true" -> "published"
                           [] isPublished = "false" -> "draft"
                           [] OTHER -> @]

\* updatePoll: data has isPublished only when the body defines it.
UpdatePoll(p, isPublished) ==
    /\ polls[p] # "absent"
    /\ polls' = UpdatedPolls(p, isPublished)
    /\ UNCHANGED <<httpVars, voteVars, sockVars>>

\* publishPoll: data: { isPublished: true }.
PublishPoll(p) ==
    /\ polls[p] # "absent"
    /\ polls' = [polls EXCEPT ![p] = "published"]
    /\ UNCHANGED <<httpVars, voteVars, sockVars>>

\* As IsOwner, with the comparison of creatorId and userId left out.
IsOwnerAnyUser(u, p) == TRUE

\* poll.creatorId === userId in requirePollOwnership.
IsOwner(u, p) == CreatorOf(p) = u

\* router.put('/:id'), router.delete('/:id') and router.put('/:id/publish') run
\* requirePollOwnership before the handler: a request of user u arrives in a free
\* slot and the middleware reads the poll's creatorId; a failed read answers 500,
\* a missing poll 404, another creator 403; otherwise next() runs the handler.
CheckOwnership(k, u, p, op, isPublished, ok) ==
    /\ preq[k].pc = "idle"
    /\ preq' = [preq EXCEPT ![k] =
                  [user |-> u, poll |-> p, op |-> op, isPublished |-> isPublished,
                   pc |-> IF ok /\ polls[p] # "absent" /\ IsOwner(u, p)
                          THEN "handler" ELSE "respond",
                   status |-> IF ~ok THEN "error500"
                              ELSE IF polls[p] = "absent" THEN "notFound404"
                              ELSE IF ~IsOwner(u, p) THEN "forbidden403"
                              ELSE "none"]]
    /\ UNCHANGED <<results, polls, voteVars, sockVars>>

\* The handler behind requirePollOwnership: poll.update of updatePoll and of
\* publishPoll, poll.delete of deletePoll.  A failed store call and a poll deleted
\* since the ownership check (P2025) end in errorHandler.  The source has no
\* schema telling whether the delete cascades to the votes of the poll: either.
RunPollHandler(k, ok) ==
    LET q == preq[k] IN
    /\ q.pc = "handler"
    /\ IF ~ok \/ polls[q.poll] = "absent"
       THEN /\ preq' = [preq EXCEPT ![k].pc = "respond",
                                    ![k].status = IF ok THEN "notFound404" ELSE "error500"]
            /\ UNCHANGED <<polls, votes>>
       ELSE /\ preq' = [preq EXCEPT ![k].pc = "respond", ![k].status = "ok200"]
            /\ polls' = CASE q.op = "update" -> UpdatedPolls(q.poll, q.isPublished)
                          [] q.op = "publish" -> [polls EXCEPT ![q.poll] = "published"]
                          [] OTHER -> [polls EXCEPT ![q.poll] = "absent"]
            /\ IF q.op = "delete"
               THEN \E cascade \in BOOLEAN :
                       votes' = IF cascade THEN {v \in votes : PollOf(v.option) # q.poll}
                                ELSE votes
               ELSE UNCHANGED votes
    /\ UNCHANGED <<results, pollVer, unsent, req, sockVars>>

\* res.json of the handler, of the middleware or of errorHandler.
RespondPoll(k) ==
    /\ preq[k].pc = "respond"
    /\ preq' = [preq EXCEPT ![k] = IdlePollReq]
    /\ UNCHANGED <<results, polls, voteVars, sockVars>>

----------------------------------------------------------------------------
(* VoteController.submitVote                                               *)

\* As PollVotable, with the isPublished filter left out of the where clause.
PollVotableAnyPoll(p) == polls[p] # "absent"

\* where: { id: pollId, isPublished: true }
PollVotable(p) == polls[p] = "published"

\* As IsDuplicate, with the same-option check left out.
IsDuplicateNever(existing, o) == FALSE

\* existingVote.pollOptionId === pollOptionId
IsDuplicate(existing, o) == existing.option = o

\* As UniqueViolation, on a votes table without the unique index.
UniqueViolationNever(u, o, id) == FALSE

\* The unique index votes_user_id_poll_option_id_key on (user_id, poll_option_id):
\* another row than `id` already holds (u, o).
UniqueViolation(u, o, id) ==
    \E v \in votes : v.user = u /\ v.option = o /\ v.id # id

\* A fresh primary key (cuid): above every id the table holds.
NewVoteId ==
    IF votes = {} THEN 1
    ELSE 1 + CHOOSE m \in {v.id : v \in votes} : \A v \in votes : v.id <= m

\* The slots whose handler is running.
InFlight == {r \in Slots : req[r].pc # "idle"}

\* As Fail, with the broadcast call placed where a throw does not skip it.
FailBroadcasting(r, status) ==
    req' = [req EXCEPT ![r].pc = "bcastRead", ![r].status = status, ![r].calls = @ + 1]

\* A throw in the handler: asyncHandler hands the error to errorHandler, whose
\* res.status(statusCode).json(...) is the response.
Fail(r, status) == req' = [req EXCEPT ![r].pc = "respond", ![r].status = status]

\* As OptionValid, looking the option up without the poll it belongs to.
OptionValidAnyPoll(p, o) == o \in Options

\* include: { options: { where: { id: pollOptionId } } } of the poll read, and
\* poll.options.length === 0 on its result.
OptionValid(p, o) == o \in OptionsOf(p)

\* A request of user u arrives in a free slot (authenticateToken has set req.user)
\* and the handler runs poll.findUnique({ id, isPublished: true }, include options
\* where id = pollOptionId) and the two checks on its result.
StartVote(r, u, p, o, ok) ==
    /\ req[r].pc = "idle"
    /\ SumCounts(pollVer, Polls) + Cardinality(InFlight) < MaxWrites
    /\ req' = [req EXCEPT ![r] =
                 [IdleReq EXCEPT !.user = u, !.poll = p, !.option = o,
                     !.pc = IF ok /\ PollVotable(p) /\ OptionValid(p, o)
                            THEN "findVote" ELSE "respond",
                     !.status = IF ~ok THEN "error500"
                                ELSE IF ~PollVotable(p) THEN "notFound404"
                                ELSE IF ~OptionValid(p, o) THEN "invalid400"
                                ELSE "none"]]
    /\ UNCHANGED <<httpVars, polls, votes, pollVer, unsent, sockVars>>

\* vote.findFirst({ userId, pollOption: { pollId } }) and the duplicate check.
\* findFirst has no orderBy: with several matching rows it returns any of them.
FindVote(r, ok) ==
    LET q == req[r] IN
    /\ q.pc = "findVote"
    /\ IF ~ok THEN Fail(r, "error500")
       ELSE \E e \in (IF VotesOf(q.user, q.poll) = {} THEN {NoRow}
                      ELSE VotesOf(q.user, q.poll)) :
              IF e # NoRow /\ IsDuplicate(e, q.option)
              THEN req' = [req EXCEPT ![r].pc = "respond", ![r].status = "duplicate409",
                                      ![r].existing = e]
              ELSE req' = [req EXCEPT ![r].pc = "write", ![r].existing = e]
    /\ UNCHANGED <<httpVars, polls, votes, pollVer, unsent, sockVars>>

\* As UpdatedVotes, losing the row instead of repointing it.
UpdatedVotesDropped(id, o) == {v \in votes : v.id # id}

\* As UpdatedVotes, writing the new option as a new row of the same user.
UpdatedVotesInsert(id, o) ==
    votes \cup {[id |-> Cardinality(votes) + 1,
                 user |-> (CHOOSE v \in votes : v.id = id).user, option |-> o]}

\* As UpdatedVotes, with the update selecting by the user of the row instead
\* of by its id.
UpdatedVotesOfUser(id, o) ==
    {IF v.user = (CHOOSE w \in votes : w.id = id).user THEN [v EXCEPT !.option = o] ELSE v :
        v \in votes}

\* The ledger after vote.update({ where: { id }, data: { pollOptionId: o } }).
UpdatedVotes(id, o) ==
    {IF v.id = id THEN [v EXCEPT !.option = o] ELSE v : v \in votes}

\* The ledger after vote.create({ data: { userId: u, pollOptionId: o } }).
CreatedVotes(u, o) == votes \cup {[id |-> NewVoteId, user |-> u, option |-> o]}

\* As Commit, answering without the call of broadcastVoteUpdate.
CommitSilent(r, newVotes, status) ==
    /\ votes' = newVotes
    /\ pollVer' = [pollVer EXCEPT ![req[r].poll] = IF newVotes = votes THEN @ ELSE @ + 1]
    /\ unsent' = [unsent EXCEPT ![req[r].poll] = @ \/ newVotes # votes]
    /\ req' = [req EXCEPT ![r].pc = "respond", ![r].status = status,
                          ![r].wrote = (newVotes # votes)]

\* As Commit, calling broadcastVoteUpdate without awaiting it: the handler goes
\* on to res.json while the broadcast is still to run.
CommitUnawaited(r, newVotes, status) ==
    /\ votes' = newVotes
    /\ pollVer' = [pollVer EXCEPT ![req[r].poll] = IF newVotes = votes THEN @ ELSE @ + 1]
    /\ unsent' = [unsent EXCEPT ![req[r].poll] = @ \/ newVotes # votes]
    /\ req' = [req EXCEPT ![r].pc = "respond", ![r].status = status,
                          ![r].wrote = (newVotes # votes), ![r].calls = @ + 1]

\* The write commits and the handler goes on to call broadcastVoteUpdate(pollId),
\* which issues its poll.findUnique.
Commit(r, newVotes, status) ==
    /\ votes' = newVotes
    /\ pollVer' = [pollVer EXCEPT ![req[r].poll] = IF newVotes = votes THEN @ ELSE @ + 1]
    /\ unsent' = [unsent EXCEPT ![req[r].poll] = @ \/ newVotes # votes]
    /\ req' = [req EXCEPT ![r].pc = "bcastRead", ![r].status = status,
                          ![r].wrote = (newVotes # votes), ![r].calls = @ + 1]

\* vote.update when existingVote was found, vote.create otherwise.
WriteVote(r, ok) ==
    LET q == req[r] IN
    /\ q.pc = "write"
    /\ IF ~ok
       THEN Fail(r, "error500") /\ UNCHANGED <<votes, pollVer, unsent>>
       ELSE IF q.existing # NoRow
       THEN IF ~\E v \in votes : v.id = q.existing.id
            THEN Fail(r, "notFound404") /\ UNCHANGED <<votes, pollVer, unsent>>
            ELSE IF UniqueViolation(q.user, q.option, q.existing.id)
            THEN Fail(r, "conflict409") /\ UNCHANGED <<votes, pollVer, unsent>>
            ELSE Commit(r, UpdatedVotes(q.existing.id, q.option), "moved")
       ELSE IF UniqueViolation(q.user, q.option, 0)
            THEN Fail(r, "conflict409") /\ UNCHANGED <<votes, pollVer, unsent>>
            ELSE Commit(r, CreatedVotes(q.user, q.option), "created")
    /\ UNCHANGED <<httpVars, polls, sockVars>>

\* As BcastRead, with a failed read thrown on to submitVote.
BcastReadThrows(r, ok) ==
    /\ req[r].pc = "bcastRead"
    /\ IF ~ok THEN req' = [req EXCEPT ![r].pc = "respond", ![r].status = "error500"]
       ELSE IF polls[req[r].poll] = "absent" THEN req' = [req EXCEPT ![r].pc = "respond"]
       ELSE req' = [req EXCEPT ![r].pc = "bcastEmit", ![r].snap = PollData(req[r].poll)]
    /\ UNCHANGED <<httpVars, polls, votes, pollVer, unsent, sockVars>>

\* broadcastVoteUpdate: poll.findUnique({ id }) with the vote counts; a missing poll
\* returns, a failed read is caught and logged.
BcastRead(r, ok) ==
    LET q == req[r] IN
    /\ q.pc = "bcastRead"
    /\ IF ~ok \/ polls[q.poll] = "absent"
       THEN req' = [req EXCEPT ![r].pc = "respond"]
       ELSE req' = [req EXCEPT ![r].pc = "bcastEmit", ![r].snap = PollData(q.poll)]
    /\ UNCHANGED <<httpVars, polls, votes, pollVer, unsent, sockVars>>

\* The sockets io.to(`poll-${p}`).emit reaches.
Recipients(p) == rooms[p]

\* broadcastVoteUpdate: io.to(roomName).emit('poll-updated', pollData).
BcastEmit(r) ==
    LET q == req[r] IN
    /\ q.pc = "bcastEmit"
    /\ last' = [s \in Sessions |->
                  IF s \in Recipients(q.poll)
                  THEN [last[s] EXCEPT ![q.poll] = [name |-> "poll-updated", data |-> q.snap]]
                  ELSE last[s]]
    /\ unsent' = [unsent EXCEPT ![q.poll] = @ /\ q.snap.ver # pollVer[q.poll]]
    /\ req' = [req EXCEPT ![r].pc = "respond", ![r].snap = NoSnap]
    /\ UNCHANGED <<httpVars, polls, votes, pollVer, conn, cred, err, rooms, cpr, joining,
                   notice>>

\* The response is sent, res.json({ message, vote }) or errorHandler's, and the
\* handler is over.
Respond(r) ==
    /\ req[r].pc = "respond"
    /\ req' = [req EXCEPT ![r] = IdleReq]
    /\ UNCHANGED <<httpVars, polls, votes, pollVer, unsent, sockVars>>

----------------------------------------------------------------------------
(* setupWebSocket: the handshake middleware and the socket event handlers. *)

\* The token verifyAccessToken accepts: "ghost" is a well-formed token whose
\* userId names no row of users.
TokenVerifies(c) == c \in {"ghost", "valid"}

\* io.use: a handshake without a token ("none") or with a token verifyAccessToken
\* rejects ("bad") ends at once; with a token it accepts the middleware awaits
\* user.findUnique.
Connect(s, c) ==
    /\ conn[s] = "closed"
    /\ joining[s] = NoJoin
    /\ cred' = [cred EXCEPT ![s] = c]
    /\ conn' = [conn EXCEPT ![s] = IF TokenVerifies(c) THEN "auth" ELSE "closed"]
    /\ UNCHANGED <<httpVars, polls, voteVars, err, rooms, cpr, joining, notice, last>>

\* io.use after user.findUnique: when the user exists the socket gets its userId
\* and an empty currentPollRooms and the connection is accepted; a missing user
\* or a failed lookup rejects it.
\* As UserFound, with the check of the looked-up user left out.
UserFoundAlways(s) == TRUE

\* user.findUnique({ where: { id: payload.userId } }) returns a row.
UserFound(s) == cred[s] = "valid"

AuthLookup(s, ok) ==
    /\ conn[s] = "auth"
    /\ IF ok /\ UserFound(s)
       THEN /\ conn' = [conn EXCEPT ![s] = "connected"]
            /\ cpr' = [cpr EXCEPT ![s] = {}]
       ELSE /\ conn' = [conn EXCEPT ![s] = "closed"]
            /\ UNCHANGED cpr
    /\ UNCHANGED <<httpVars, polls, voteVars, cred, err, rooms, joining, notice, last>>

\* As ConnectTimeout, with the timer of the server never firing.
ConnectTimeoutNever(s) == FALSE /\ UNCHANGED vars

\* new Server(server, { cors, transports }) sets no connectTimeout, so the
\* Socket.IO default applies: a client that has joined no namespace when the
\* timer fires (the middleware has not called next) is closed.  The handshake
\* reads socket.handshake.auth, which exists from the Socket.IO release that
\* introduced connectTimeout.
ConnectTimeout(s) ==
    /\ conn[s] = "auth"
    /\ conn' = [conn EXCEPT ![s] = "closed"]
    /\ UNCHANGED <<httpVars, polls, voteVars, cred, err, rooms, cpr, joining, notice, last>>

\* As PollJoinable, with the isPublished filter left out of the where clause.
PollJoinableAnyPoll(p) == polls[p] # "absent"

\* where: { id: pollId, isPublished: true }
PollJoinable(p) == polls[p] = "published"

\* The message of the 'error' event a failing join-poll emits.
JoinError(p, ok) ==
    IF p \notin Polls THEN "Invalid poll ID provided"
    ELSE IF ~ok THEN "Failed to join poll room"
    ELSE "Poll not found or not published"

\* socket.on('join-poll') up to the await of poll.findUnique: an invalid id, a
\* failed read and a poll that is missing or unpublished answer with 'error';
\* otherwise the handler holds the poll with the vote counts it has read.
JoinPoll(s, p, ok) ==
    /\ conn[s] = "connected"
    /\ joining[s] = NoJoin
    /\ IF p \in Polls /\ ok /\ PollJoinable(p)
       THEN /\ joining' = [joining EXCEPT ![s] = [poll |-> p, snap |-> PollData(p)]]
            /\ err' = [err EXCEPT ![s] = "none"]
       ELSE /\ UNCHANGED joining
            /\ err' = [err EXCEPT ![s] = JoinError(p, ok)]
    /\ UNCHANGED <<httpVars, polls, voteVars, conn, cred, rooms, cpr, notice, last>>

\* As Joined, with a join that still takes effect after the disconnect.
JoinedAlways(s, p) == rooms[p] \cup {s}

\* The room after socket.join(roomName) of socket s: once a socket has
\* disconnected, Socket.IO has made its join a no-op.
Joined(s, p) == IF conn[s] = "connected" THEN rooms[p] \cup {s} ELSE rooms[p]

\* a || b of JavaScript on a number a.
OrElse(a, b) == IF a = 0 THEN b ELSE a

\* socket.to(roomName).emit(name, { userCount }): the notification reaches the
\* members of the room but the socket itself; with nobody to reach nothing is sent.
Notify(name, s, userCount, members) ==
    IF members \ {s} = {} THEN NoNotice
    ELSE [name |-> name, userCount |-> userCount, from |-> s, to |-> members \ {s}]

\* io.sockets.adapter.rooms.get(roomName)?.size || 1 after socket.join.
JoinedUserCount(members) == OrElse(Cardinality(members), 1)

\* io.sockets.adapter.rooms.get(roomName)?.size || 0 after socket.leave.
LeftUserCount(members) == OrElse(Cardinality(members), 0)

\* Math.max(0, (io.sockets.adapter.rooms.get(roomName)?.size || 1) - 1) in the
\* 'disconnect' handler, which runs when the socket has left its rooms.
GoneUserCount(members) ==
    IF OrElse(Cardinality(members), 1) - 1 > 0
    THEN OrElse(Cardinality(members), 1) - 1 ELSE 0

\* socket.on('join-poll') after the read: socket.join(roomName),
\* currentPollRooms.add(roomName), socket.emit('poll-data', pollData),
\* socket.to(roomName).emit('user-joined-poll').  A socket that has disconnected
\* meanwhile discards the emit to itself.
JoinComplete(s) ==
    LET j == joining[s] IN
    /\ j # NoJoin
    /\ joining' = [joining EXCEPT ![s] = NoJoin]
    /\ rooms' = [rooms EXCEPT ![j.poll] = Joined(s, j.poll)]
    /\ cpr' = [cpr EXCEPT ![s] = @ \cup {j.poll}]
    /\ notice' = [notice EXCEPT ![j.poll] =
                     Notify("user-joined-poll", s, JoinedUserCount(Joined(s, j.poll)),
                            Joined(s, j.poll))]
    /\ IF conn[s] = "connected"
       THEN last' = [last EXCEPT ![s][j.poll] = [name |-> "poll-data", data |-> j.snap]]
       ELSE UNCHANGED last
    /\ UNCHANGED <<httpVars, polls, voteVars, conn, cred, err>>

\* As LeavePoll, leaving every room of the socket.
LeavePollEvery(s, p) ==
    /\ conn[s] = "connected"
    /\ rooms' = [q \in Polls |-> rooms[q] \ {s}]
    /\ cpr' = [cpr EXCEPT ![s] = @ \ {p}]
    /\ last' = [last EXCEPT ![s][p] = NoEvent]
    /\ UNCHANGED <<httpVars, polls, voteVars, conn, cred, err, joining, notice>>

\* socket.on('leave-poll'): socket.leave(roomName), currentPollRooms.delete(roomName),
\* socket.to(roomName).emit('user-left-poll').
LeavePoll(s, p) ==
    /\ conn[s] = "connected"
    /\ rooms' = [rooms EXCEPT ![p] = @ \ {s}]
    /\ cpr' = [cpr EXCEPT ![s] = @ \ {p}]
    /\ notice' = [notice EXCEPT ![p] =
                     Notify("user-left-poll", s, LeftUserCount(rooms[p] \ {s}),
                            rooms[p] \ {s})]
    /\ last' = [last EXCEPT ![s][p] = NoEvent]
    /\ UNCHANGED <<httpVars, polls, voteVars, conn, cred, err, joining>>

\* As LeaveAll, with the closing socket left in its rooms.
LeaveAllKept(s) == rooms

\* The rooms after Socket.IO has taken the closing socket s out of all of them.
LeaveAll(s) == [p \in Polls |-> rooms[p] \ {s}]

\* The connection closes: Socket.IO empties the socket's rooms and then fires
\* 'disconnect', whose handler notifies the rooms in currentPollRooms.  The
\* slot keeps nothing of the handshake and of the events of the closed socket.
Disconnect(s) ==
    /\ conn[s] = "connected"
    /\ conn' = [conn EXCEPT ![s] = "closed"]
    /\ cred' = [cred EXCEPT ![s] = "none"]
    /\ err' = [err EXCEPT ![s] = "none"]
    /\ rooms' = LeaveAll(s)
    /\ notice' = [p \in Polls |->
                     IF p \in cpr[s]
                     THEN Notify("user-left-poll", s, GoneUserCount(LeaveAll(s)[p]),
                                 LeaveAll(s)[p])
                     ELSE notice[p]]
    /\ last' = [last EXCEPT ![s] = [p \in Polls |-> NoEvent]]
    /\ UNCHANGED <<httpVars, polls, voteVars, cpr, joining>>

----------------------------------------------------------------------------
(* The whole system.                                                       *)

PollStep ==
    \/ \E p \in Polls, b \in BOOLEAN : CreatePoll(p, b)
    \/ \E p \in Polls, b \in {"true", "false", "undefined"} : UpdatePoll(p, b)
    \/ \E p \in Polls : PublishPoll(p)

VoteStep ==
    \/ \E r \in Slots, u \in Users, p \in Polls, o \in Options, ok \in BOOLEAN :
          StartVote(r, u, p, o, ok)
    \/ \E r \in Slots, ok \in BOOLEAN : FindVote(r, ok)
    \/ \E r \in Slots, ok \in BOOLEAN : WriteVote(r, ok)
    \/ \E r \in Slots, ok \in BOOLEAN : BcastRead(r, ok)
    \/ \E r \in Slots : BcastEmit(r)
    \/ \E r \in Slots : Respond(r)

SocketStep ==
    \/ \E s \in Sessions, c \in {"none", "bad", "ghost", "valid"} : Connect(s, c)
    \/ \E s \in Sessions, ok \in BOOLEAN : AuthLookup(s, ok)
    \/ \E s \in Sessions : ConnectTimeout(s)
    \/ \E s \in Sessions, p \in Polls \cup {""}, ok \in BOOLEAN : JoinPoll(s, p, ok)
    \/ \E s \in Sessions : JoinComplete(s)
    \/ \E s \in Sessions, p \in Polls : LeavePoll(s, p)
    \/ \E s \in Sessions : Disconnect(s)

OwnedPollStep ==
    \/ \E k \in Slots, u \in Users, p \in Polls, ok \in BOOLEAN :
          \E op \in {"update", "publish", "delete"}, b \in {"true", "false", "undefined"} :
             CheckOwnership(k, u, p, op, b, ok)
    \/ \E k \in Slots, ok \in BOOLEAN : RunPollHandler(k, ok)
    \/ \E k \in Slots : RespondPoll(k)

ResultsStep == \E p \in Polls, ok \in BOOLEAN : GetPollResults(p, ok)

Next == PollStep \/ OwnedPollStep \/ ResultsStep \/ VoteStep \/ SocketStep

Spec == Init /\ [][Next]_vars

\* The vote ledger on its own: polls and submitVote requests while no socket
\* connects.  The socket handlers write none of polls, votes, pollVer, unsent, req.
LedgerNext == PollStep \/ VoteStep

LedgerSpec == Init /\ [][LedgerNext]_vars

\* Sequential calls: a request arrives only when no other is being handled.
SeqStartVote(r, u, p, o, ok) == InFlight = {} /\ StartVote(r, u, p, o, ok)

SeqNext ==
    \/ PollStep
    \/ \E r \in Slots, u \in Users, p \in Polls, o \in Options, ok \in BOOLEAN :
          SeqStartVote(r, u, p, o, ok)
    \/ \E r \in Slots, ok \in BOOLEAN : FindVote(r, ok)
    \/ \E r \in Slots, ok \in BOOLEAN : WriteVote(r, ok)
    \/ \E r \in Slots, ok \in BOOLEAN : BcastRead(r, ok)
    \/ \E r \in Slots : BcastEmit(r)
    \/ \E r \in Slots : Respond(r)

SeqSpec == Init /\ [][SeqNext]_vars

\* The fan-out of one published poll: user u1 voting on the options of p1, while
\* both sockets connect, join and leave p1's room and disconnect.  Store calls
\* succeed, but for the read of broadcastVoteUpdate.  Every behaviour of
\* FanoutSpec is a behaviour of Spec.
FanoutNext ==
    \/ CreatePoll("p1", TRUE)
    \/ \E r \in Slots, o \in OptionsOf("p1") : StartVote(r, "u1", "p1", o, TRUE)
    \/ \E r \in Slots : FindVote(r, TRUE)
    \/ \E r \in Slots : WriteVote(r, TRUE)
    \/ \E r \in Slots, ok \in BOOLEAN : BcastRead(r, ok)
    \/ \E r \in Slots : BcastEmit(r)
    \/ \E r \in Slots : Respond(r)
    \/ \E s \in Sessions : Connect(s, "valid")
    \/ \E s \in Sessions : AuthLookup(s, TRUE)
    \/ \E s \in Sessions : PollJoinable("p1") /\ JoinPoll(s, "p1", TRUE)
    \/ \E s \in Sessions : JoinComplete(s)
    \/ \E s \in Sessions : LeavePoll(s, "p1")
    \/ \E s \in Sessions : Disconnect(s)

FanoutSpec == Init /\ [][FanoutNext]_vars

\* One socket slot on both polls: the handshake with any token, join-poll with any
\* argument and outcome of its read, leave-poll and disconnect of s1, while the
\* polls are created, published and unpublished and user u1 votes for one option
\* of each.  Store calls of submitVote succeed.  Every behaviour of SessionSpec
\* is a behaviour of Spec.
SessionNext ==
    \/ \E p \in Polls, b \in BOOLEAN : CreatePoll(p, b)
    \/ \E p \in Polls : UpdatePoll(p, "false")
    \/ \E p \in Polls : PublishPoll(p)
    \/ \E r \in Slots, o \in {"a", "c"} : StartVote(r, "u1", PollOf(o), o, TRUE)
    \/ \E r \in Slots : FindVote(r, TRUE)
    \/ \E r \in Slots : WriteVote(r, TRUE)
    \/ \E r \in Slots : BcastRead(r, TRUE)
    \/ \E r \in Slots : BcastEmit(r)
    \/ \E r \in Slots : Respond(r)
    \/ \E c \in {"none", "bad", "ghost", "valid"} : Connect("s1", c)
    \/ \E ok \in BOOLEAN : AuthLookup("s1", ok)
    \/ \E p \in Polls \cup {""}, ok \in BOOLEAN : JoinPoll("s1", p, ok)
    \/ JoinComplete("s1")
    \/ \E p \in Polls : LeavePoll("s1", p)
    \/ Disconnect("s1")

SessionSpec == Init /\ [][SessionNext]_vars

\* The vote with id SeedId(u, o) is the row of user u on option o.
SeedId(u, o) ==
    (IF u = "u1" THEN 0 ELSE 3) + (CASE o = "a" -> 1 [] o = "b" -> 2 [] OTHER -> 3)

\* A votes table with one row for every pair of S.  The unique index is on
\* (user_id, poll_option_id), so a table holds at most one row per pair; rows
\* of one user on two options of a poll are left by concurrent first votes.
Ledger(S) == {[id |-> SeedId(pr[1], pr[2]), user |-> pr[1], option |-> pr[2]] : pr \in S}

\* Votes cast before the requests under study arrive: u1 on option a of p1 and
\* on option c of p2, u2 on option b of p1, or any part of these.
SeedVotes == {<<"u1", "a">>, <<"u2", "b">>, <<"u1", "c">>}

\* submitVote requests of both users on two published polls that already hold
\* votes; pollVer counts the writes made from here on.
SeededInit ==
    /\ polls = [p \in Polls |-> "published"]
    /\ votes \in {Ledger(S) : S \in SUBSET SeedVotes}
    /\ pollVer = [p \in Polls |-> 0]
    /\ unsent = [p \in Polls |-> FALSE]
    /\ req = [r \in Slots |-> IdleReq]
    /\ preq = [k \in Slots |-> IdlePollReq]
    /\ results = NoResults
    /\ conn = [s \in Sessions |-> "closed"]
    /\ cred = [s \in Sessions |-> "none"]
    /\ err = [s \in Sessions |-> "none"]
    /\ rooms = [p \in Polls |-> {}]
    /\ cpr = [s \in Sessions |-> {}]
    /\ joining = [s \in Sessions |-> NoJoin]
    /\ notice = [p \in Polls |-> NoNotice]
    /\ last = [s \in Sessions |-> [p \in Polls |-> NoEvent]]

SeededSpec == SeededInit /\ [][VoteStep]_vars

\* getPollResults on a store that holds any polls and any votes table on the
\* options of the polls it holds.
ResultsInit ==
    /\ polls \in [Polls -> {"absent", "draft", "published"}]
    /\ votes \in {Ledger(S) : S \in SUBSET {pr \in Users \X Options :
                                                polls[PollOf(pr[2])] # "absent"}}
    /\ pollVer = [p \in Polls |-> 0]
    /\ unsent = [p \in Polls |-> FALSE]
    /\ req = [r \in Slots |-> IdleReq]
    /\ preq = [k \in Slots |-> IdlePollReq]
    /\ results = NoResults
    /\ conn = [s \in Sessions |-> "closed"]
    /\ cred = [s \in Sessions |-> "none"]
    /\ err = [s \in Sessions |-> "none"]
    /\ rooms = [p \in Polls |-> {}]
    /\ cpr = [s \in Sessions |-> {}]
    /\ joining = [s \in Sessions |-> NoJoin]
    /\ notice = [p \in Polls |-> NoNotice]
    /\ last = [s \in Sessions |-> [p \in Polls |-> NoEvent]]

ResultsSpec == ResultsInit /\ [][ResultsStep]_vars

\* The handshake of both sockets with any token, on a store whose user lookup
\* answers when it answers at all, next to the room of p1.  The connect timer
\* of a pending handshake fires eventually; nothing obliges user.findUnique
\* to return.
LiveNext ==
    \/ CreatePoll("p1", TRUE)
    \/ \E s \in Sessions, c \in {"none", "bad", "ghost", "valid"} : Connect(s, c)
    \/ \E s \in Sessions : AuthLookup(s, TRUE)
    \/ \E s \in Sessions : ConnectTimeout(s)
    \/ \E s \in Sessions : PollJoinable("p1") /\ JoinPoll(s, "p1", TRUE)
    \/ \E s \in Sessions : JoinComplete(s)
    \/ \E s \in Sessions : LeavePoll(s, "p1")
    \/ \E s \in Sessions : Disconnect(s)

LiveSpec == Init /\ [][LiveNext]_vars /\ \A s \in Sessions : WF_vars(ConnectTimeout(s))

\* The poll routes behind requirePollOwnership, requests of both users on both
\* polls running concurrently, with createPoll.  No vote is cast and no socket
\* connects.
OwnerNext ==
    \/ \E p \in Polls, b \in BOOLEAN : CreatePoll(p, b)
    \/ \E k \in Slots, u \in Users, p \in Polls, ok \in BOOLEAN :
          \/ \E b \in {"true", "false", "undefined"} :
                CheckOwnership(k, u, p, "update", b, ok)
          \/ \E op \in {"publish", "delete"} :
                CheckOwnership(k, u, p, op, "undefined", ok)
    \/ \E k \in Slots, ok \in BOOLEAN : RunPollHandler(k, ok)
    \/ \E k \in Slots : RespondPoll(k)

OwnerSpec == Init /\ [][OwnerNext]_vars

----------------------------------------------------------------------------
(* Properties.                                                             *)

\* C1: in no reachable state do two vote rows exist for the same (user, poll),
\* whatever the interleaving of that user's submitVote requests.
C1_OneVotePerUserPoll ==
    \A u \in Users, p \in Polls : Cardinality(VotesOf(u, p)) <= 1

\* C2: the store rejects every insert or update that would leave one user with
\* two vote rows on different options of one poll: no write it accepts ends with
\* such rows.
C2_StoreRejectsSecondRow ==
    [][\A u \in Users, p \in Polls :
          votes' # votes =>
              \A v, w \in {x \in votes' : x.user = u /\ PollOf(x.option) = p} :
                  v.option = w.option]_vars

\* C3: the poll-updated snapshots a session receives for a poll follow the order
\* of the ledger states: none reflects an older state than the one before it.
C3_SnapshotsInOrder ==
    [][\A s \in Sessions, p \in Polls :
          (last[s][p].name = "poll-updated" /\ last'[s][p].name = "poll-updated")
              => last'[s][p].data.ver >= last[s][p].data.ver]_vars

\* C4: no state-changing vote is left out of all broadcasts: once every request
\* has been answered (so that no further broadcast is pending), a poll-updated
\* carrying the current ledger state of each poll has been emitted.
C4_EveryChangeBroadcast ==
    InFlight = {} => \A p \in Polls : ~unsent[p]

\* C5: the poll-data a session receives when it becomes a member of a poll's room
\* has totalVotes equal to the number of votes stored for the poll at that moment.
C5_JoinSnapshotCurrent ==
    [][\A s \in Sessions, p \in Polls :
          (s \notin rooms[p] /\ s \in rooms'[p])
              => /\ last'[s][p].name = "poll-data"
                 /\ last'[s][p].data.total =
                        Cardinality({v \in votes' : PollOf(v.option) = p})]_vars

\* C6: a submitVote for the option the user's vote on that poll already is on
\* (findFirst returned a vote on the requested option) fails with the duplicate
\* 409, having changed no vote and called no broadcast.
C6_DuplicateVoteRejected ==
    \A r \in Slots :
        (req[r].pc \in {"write", "bcastRead", "bcastEmit", "respond"}
         /\ req[r].existing # NoRow /\ req[r].existing.option = req[r].option)
            => /\ req[r].pc = "respond"
               /\ req[r].status = "duplicate409"
               /\ ~req[r].wrote
               /\ req[r].calls = 0

C6_Witness ==
    \E r \in Slots :
        /\ req[r].pc = "respond" /\ req[r].status = "duplicate409"
        /\ VotesOf(req[r].user, req[r].poll) = {req[r].existing}

\* C7: a submitVote whose poll is not published when the handler looks it up
\* fails at that lookup, and up to its answer the handler neither changes a vote
\* row nor calls broadcastVoteUpdate.
C7_UnpublishedPollRejected ==
    [][\A r \in Slots :
          /\ (req[r].pc = "idle" /\ req'[r].pc # "idle"
              /\ polls[req'[r].poll] # "published")
                => /\ req'[r].pc = "respond"
                   /\ req'[r].status \in {"notFound404", "error500"}
                   /\ votes' = votes
          /\ (req[r].pc = "respond" /\ req[r].status \in {"notFound404", "error500"})
                => /\ ~req[r].wrote /\ req[r].calls = 0
                   /\ req'[r] # req[r] => (req'[r].pc = "idle" /\ votes' = votes)]_vars

C7_Witness ==
    \E r \in Slots :
        /\ req[r].pc = "respond" /\ req[r].status = "notFound404"
        /\ polls[req[r].poll] = "draft"
        /\ req[r].option \in OptionsOf(req[r].poll)

\* C8: a request that ends as created or moved has called broadcastVoteUpdate
\* exactly once, a request that ends as duplicate or in any other error never.
C8_OneBroadcastPerChange ==
    \A r \in Slots :
        /\ req[r].calls <= 1
        /\ req[r].pc = "respond" =>
              (req[r].calls = 1 <=> req[r].status \in {"created", "moved"})

C8_Witness ==
    \E r \in Slots :
        req[r].pc = "respond" /\ req[r].status = "moved" /\ req[r].calls = 1

\* C9: for sequential calls, the write of a submitVote on a published poll with a
\* valid option inserts one new row for (user, option) and reports created when
\* the user has no vote on the poll; when the user's vote is on another option it
\* repoints that row, reports moved and leaves the number of rows unchanged.  A
\* failed store call changes nothing.
C9_SequentialCreateOrMove ==
    [][\A r \in Slots :
          (req[r].pc = "write" /\ req'[r].pc # "write") =>
            LET q == req[r]
                mine == VotesOf(q.user, q.poll)
            IN \/ req'[r].status = "error500" /\ votes' = votes
               \/ /\ mine = {}
                  /\ req'[r].status = "created"
                  /\ Cardinality(votes') = Cardinality(votes) + 1
                  /\ \E v \in votes' :
                        /\ v.user = q.user /\ v.option = q.option
                        /\ v \notin votes /\ votes' = votes \cup {v}
               \/ \E v \in mine :
                     /\ mine = {v} /\ v.option # q.option
                     /\ req'[r].status = "moved"
                     /\ votes' = (votes \ {v}) \cup {[v EXCEPT !.option = q.option]}
                     /\ Cardinality(votes') = Cardinality(votes)]_vars

C9_Witness ==
    \E r \in Slots :
        /\ req[r].pc = "bcastRead" /\ req[r].status = "moved" /\ req[r].wrote
        /\ VotesOf(req[r].user, req[r].poll) = {[req[r].existing EXCEPT !.option = req[r].option]}

\* C10: a socket that is not connected is a member of no room, and the emit of
\* broadcastVoteUpdate delivers its snapshot to every member of the poll's room,
\* changes nothing for any other socket and lets the request go on to its answer.
C10_DisconnectedNotReached ==
    /\ [](\A s \in Sessions, p \in Polls : s \in rooms[p] => conn[s] = "connected")
    /\ [][\A r \in Slots :
            (req[r].pc = "bcastEmit" /\ req'[r].pc # "bcastEmit") =>
              /\ req'[r].pc = "respond" /\ req'[r].status = req[r].status
              /\ \A s \in Sessions :
                    IF s \in rooms[req[r].poll] /\ conn[s] = "connected"
                    THEN last'[s][req[r].poll] =
                             [name |-> "poll-updated", data |-> req[r].snap]
                    ELSE last'[s] = last[s]]_vars

C10_Witness ==
    \E s, t \in Sessions, p \in Polls :
        /\ conn[s] = "closed" /\ p \in cpr[s] /\ last[s][p] = NoEvent
        /\ rooms[p] = {t}
        /\ last[t][p].name = "poll-updated" /\ last[t][p].data.ver = pollVer[p]
        /\ pollVer[p] > 0

\* C11: a slot whose handshake presented no token, a token that does not verify
\* or the token of a user that does not exist is never connected, is a member of
\* no room and has received no poll-data and no poll-updated.
C11_RejectedHandshake ==
    \A s \in Sessions :
        cred[s] # "valid" =>
            /\ conn[s] # "connected"
            /\ \A p \in Polls : s \notin rooms[p] /\ last[s][p] = NoEvent

C11_Witness ==
    /\ cred["s1"] = "ghost" /\ conn["s1"] = "closed"
    /\ \E p \in Polls : pollVer[p] > 0 /\ ~unsent[p]

\* C12: a join-poll handler goes on to join only after it has read the poll as
\* published; a join-poll answered with an error changes no room, no
\* currentPollRooms, sends no snapshot and leaves no handler waiting to retry.
C12_JoinRefused ==
    [][\A s \in Sessions :
          /\ (joining[s] = NoJoin /\ joining'[s] # NoJoin)
                => (polls[joining'[s].poll] = "published" /\ err'[s] = "none")
          /\ (err'[s] # "none" /\ err'[s] # err[s])
                => /\ rooms' = rooms /\ cpr' = cpr /\ last' = last
                   /\ joining[s] = NoJoin /\ joining'[s] = NoJoin]_vars

C12_Witness ==
    /\ conn["s1"] = "connected" /\ err["s1"] = "Poll not found or not published"
    /\ polls["p1"] = "published" /\ "p1" \in cpr["s1"]
    /\ polls["p2"] = "draft" /\ "p2" \notin cpr["s1"] /\ "s1" \notin rooms["p2"]
    /\ last["s1"]["p2"] = NoEvent

\* C13 (as stated): in every reachable state the currentPollRooms of a session
\* names exactly the rooms the session is a member of.
C13_CurrentPollRoomsIsMembership ==
    \A s \in Sessions : cpr[s] = {p \in Polls : s \in rooms[p]}

\* C13 (amended): a session becomes a member of P's room exactly by a join-poll
\* of P that completes while it is connected and stops being one exactly by its
\* leave-poll of P or its disconnect; while the session is connected its
\* currentPollRooms names exactly the rooms it is a member of.
C13_MembershipTracksJoins ==
    /\ [](\A s \in Sessions :
            conn[s] = "connected" => cpr[s] = {p \in Polls : s \in rooms[p]})
    /\ [][\A s \in Sessions, p \in Polls :
            /\ (s \notin rooms[p] /\ s \in rooms'[p])
                  => (joining[s].poll = p /\ joining'[s] = NoJoin /\ conn[s] = "connected")
            /\ (joining[s].poll = p /\ joining'[s] = NoJoin /\ conn[s] = "connected")
                  => s \in rooms'[p]
            /\ (s \in rooms[p] /\ s \notin rooms'[p])
                  => (conn'[s] = "closed" \/ p \notin cpr'[s])
            /\ (p \in cpr[s] /\ p \notin cpr'[s]) => s \notin rooms'[p]
            /\ (conn[s] = "connected" /\ conn'[s] = "closed") => s \notin rooms'[p]]_vars

C13_Witness ==
    /\ conn["s1"] = "connected" /\ cpr["s1"] = {"p2"}
    /\ rooms["p2"] = {"s1"} /\ rooms["p1"] = {}
    /\ last["s1"]["p2"].name = "poll-data"
    /\ polls["p1"] = "published"

\* C14: no step changes the publication flag of a poll from true to false.
C14_PublishedStaysPublished ==
    [][\A p \in Polls : polls[p] = "published" => polls'[p] = "published"]_vars

\* C15: the snapshot broadcastVoteUpdate computes for a poll has totalVotes equal
\* to the sum of its voteCounts and to the number of distinct users who have a
\* vote on the poll.
C15_TotalIsDistinctVoters ==
    [][\A r \in Slots :
          (req[r].pc = "bcastRead" /\ req'[r].pc = "bcastEmit") =>
              LET d == req'[r].snap
                  p == req[r].poll
              IN /\ d.total = SumCounts(d.counts, OptionsOf(p))
                 /\ d.total = Cardinality({u \in Users : VotesOf(u, p) # {}})]_vars

\* C16: a committed write that moves a user's row from option X to option Y of a
\* poll leaves the poll's number of votes unchanged, lowers X's count by one,
\* raises Y's count by one and changes no other count; a committed create raises
\* the poll's number of votes and the option's count by one and changes no other
\* count.
C16_MoveShiftsOneVote ==
    [][\A r \in Slots :
          (req[r].pc = "write" /\ req'[r].pc = "bcastRead") =>
            LET q == req[r]
                Y == q.option
                Total(V) == Cardinality({v \in V : PollOf(v.option) = q.poll})
                Count(V, o) == Cardinality({v \in V : v.option = o})
            IN IF req'[r].status = "created"
               THEN /\ Total(votes') = Total(votes) + 1
                    /\ Count(votes', Y) = Count(votes, Y) + 1
                    /\ \A o \in Options \ {Y} : Count(votes', o) = Count(votes, o)
               ELSE /\ req'[r].status = "moved"
                    /\ \A X \in Options \ {Y} :
                          (\E v \in votes : v.id = q.existing.id /\ v.option = X) =>
                             /\ Total(votes') = Total(votes)
                             /\ Count(votes', X) = Count(votes, X) - 1
                             /\ Count(votes', Y) = Count(votes, Y) + 1
                             /\ \A o \in Options \ {X, Y} :
                                   Count(votes', o) = Count(votes, o)]_vars

C16_Witness ==
    \E r \in Slots :
        /\ req[r].pc = "bcastRead" /\ req[r].status = "moved" /\ req[r].wrote
        /\ VoteCount(req[r].existing.option) = 0 /\ VoteCount(req[r].option) = 1

\* C17: a submitVote whose option does not belong to its poll fails at the poll
\* lookup; up to its answer the handler changes no vote row and calls no
\* broadcast; every row a submitVote for poll P creates or changes references an
\* option of P afterwards.
C17_ForeignOptionRejected ==
    [][\A r \in Slots :
          /\ (req[r].pc = "idle" /\ req'[r].pc # "idle"
              /\ PollOf(req'[r].option) # req'[r].poll)
                => /\ req'[r].pc = "respond"
                   /\ req'[r].status \in {"invalid400", "notFound404", "error500"}
                   /\ votes' = votes
          /\ (req[r].pc = "respond" /\ req[r].status = "invalid400")
                => /\ ~req[r].wrote /\ req[r].calls = 0
                   /\ req'[r] # req[r] => (req'[r].pc = "idle" /\ votes' = votes)
          /\ (req[r].pc = "write" /\ req'[r].pc # "write")
                => \A v \in votes' \ votes : PollOf(v.option) = req[r].poll]_vars

C17_Witness ==
    \E r \in Slots :
        /\ req[r].pc = "respond" /\ req[r].status = "invalid400"
        /\ polls[req[r].poll] = "published"
        /\ PollOf(req[r].option) # req[r].poll

\* C18: a leave-poll of P by a connected session changes its membership, its
\* currentPollRooms entry and its last received event for no other poll Q, and a
\* later broadcast for Q still delivers its snapshot to the session while it is a
\* member of Q's room.
C18_LeaveOnlyThatRoom ==
    [][\A s \in Sessions :
          /\ \A p \in Polls :
                (conn[s] = "connected" /\ conn'[s] = "connected"
                 /\ p \in cpr[s] /\ p \notin cpr'[s])
                  => /\ s \notin rooms'[p]
                     /\ \A q \in Polls \ {p} :
                           /\ (s \in rooms'[q]) = (s \in rooms[q])
                           /\ (q \in cpr'[s]) = (q \in cpr[s])
                           /\ last'[s][q] = last[s][q]
          /\ \A r \in Slots :
                (req[r].pc = "bcastEmit" /\ req'[r].pc = "respond"
                 /\ s \in rooms[req[r].poll])
                  => last'[s][req[r].poll] =
                         [name |-> "poll-updated", data |-> req[r].snap]]_vars

C18_Witness ==
    /\ conn["s1"] = "connected" /\ cpr["s1"] = {"p2"}
    /\ rooms["p1"] = {} /\ rooms["p2"] = {"s1"}
    /\ last["s1"]["p1"] = NoEvent
    /\ last["s1"]["p2"].name = "poll-updated"
    /\ polls["p1"] = "published" /\ pollVer["p1"] > 0

\* C19: a submitVote whose own store call fails (or is rejected by the unique
\* index) ends at its answer with an error status, having changed no vote row and
\* called no broadcast; a handler writes the ledger only in its one write step,
\* before which it has written nothing.
C19_StoreFailureChangesNothing ==
    /\ [](\A r \in Slots :
            /\ req[r].status \in {"error500", "conflict409"}
                  => (req[r].pc = "respond" /\ ~req[r].wrote /\ req[r].calls = 0)
            /\ req[r].pc \in {"idle", "findVote", "write"} => ~req[r].wrote)
    /\ [][/\ \A r \in Slots :
               (req'[r].status \in {"error500", "conflict409"} /\ req'[r] # req[r])
                  => votes' = votes
          /\ votes' # votes =>
                 \E r \in Slots :
                    /\ req[r].pc = "write" /\ req'[r].pc = "bcastRead"
                    /\ Cardinality((votes' \ votes) \cup (votes \ votes')) <= 2
                    /\ Cardinality(votes' \ votes) = 1]_vars

C19_Witness ==
    \E r \in Slots :
        /\ req[r].pc = "respond" /\ req[r].status = "error500"
        /\ req[r].existing # NoRow /\ req[r].existing \in votes

\* C20: once submitVote has called broadcastVoteUpdate, the request keeps its
\* created or moved status whatever the broadcast does: a failed read takes it
\* straight to the success answer, without another write.
C20_BroadcastFailureSwallowed ==
    /\ [](\A r \in Slots :
            req[r].pc \in {"bcastRead", "bcastEmit"}
               => (req[r].status \in {"created", "moved"} /\ req[r].calls = 1))
    /\ [][\A r \in Slots :
            (req[r].pc \in {"bcastRead", "bcastEmit"} /\ req'[r] # req[r])
               => /\ req'[r].status = req[r].status
                  /\ req'[r].pc \in {"bcastEmit", "respond"}
                  /\ votes' = votes]_vars

C20_Witness ==
    \E r \in Slots :
        /\ req[r].pc = "respond" /\ req[r].status = "created" /\ req[r].wrote
        /\ InFlight = {r} /\ unsent[req[r].poll]

\* C21: the presence notification that reached the members of a room last
\* carries a userCount equal to the number of sessions that are members of the
\* room after the join, leave or disconnect it reports.
C21_UserCountIsMembers ==
    \A p \in Polls :
        notice[p] # NoNotice => notice[p].userCount = Cardinality(rooms[p])

\* C30: a leave-poll of a connected session for a room it is not a member of
\* changes no membership and delivers no user-left-poll of that session to the
\* members of the room.
C30_LeaveOfNonMemberSilent ==
    [][\A s \in Sessions, p \in Polls :
          (conn[s] = "connected" /\ conn'[s] = "connected" /\ s \notin rooms[p]
           /\ joining'[s] = joining[s])
             => /\ rooms'[p] = rooms[p]
                /\ ~(/\ notice'[p] # notice[p]
                      /\ notice'[p].name = "user-left-poll"
                      /\ notice'[p].from = s)]_vars

\* C22: an existing poll changes (update, publish, delete) only in the handler of
\* a request whose user is the poll's creator; a request of any other user for an
\* existing poll is answered by requirePollOwnership with 403 (500 when its read
\* fails), never reaches the handler and leaves every poll unchanged.
C22_OnlyCreatorChangesPoll ==
    /\ [](\A k \in Slots :
            (preq[k].pc = "handler" \/ preq[k].status = "ok200")
               => preq[k].user = CreatorOf(preq[k].poll))
    /\ [][/\ \A p \in Polls :
               (polls[p] # "absent" /\ polls'[p] # polls[p]) =>
                  \E k \in Slots : /\ preq[k].pc = "handler" /\ preq[k].poll = p
                                   /\ preq[k].user = CreatorOf(p)
                                   /\ preq'[k].status = "ok200"
          /\ \A k \in Slots :
               /\ (preq[k].pc = "idle" /\ preq'[k].pc # "idle"
                   /\ polls[preq'[k].poll] # "absent"
                   /\ preq'[k].user # CreatorOf(preq'[k].poll))
                     => /\ preq'[k].pc = "respond"
                        /\ preq'[k].status \in {"forbidden403", "error500"}
                        /\ polls' = polls
               /\ (preq[k].status = "forbidden403" /\ preq'[k] # preq[k])
                     => (preq'[k].pc = "idle" /\ polls' = polls)]_vars

C22_Witness ==
    \E k \in Slots :
        /\ preq[k].pc = "respond" /\ preq[k].status = "forbidden403"
        /\ preq[k].op = "delete" /\ polls[preq[k].poll] = "published"
        /\ preq[k].user # CreatorOf(preq[k].poll)

\* C23: a handshake that is waiting for its verification does not wait for
\* ever: the slot leaves the pending state, and it leaves it closed unless the
\* verification returned and accepted the user.
C23_HandshakeTimesOut ==
    /\ \A s \in Sessions : (conn[s] = "auth") ~> (conn[s] # "auth")
    /\ [][\A s \in Sessions :
            (conn[s] = "auth" /\ conn'[s] = "connected") => cred[s] = "valid"]_vars

C23_Witness ==
    /\ conn["s1"] = "closed" /\ cred["s1"] = "valid"
    /\ conn["s2"] = "connected" /\ "s2" \in rooms["p1"]

\* C24: a getPollResults response reports for every option of its poll the
\* stored count and, when the poll has votes, the one-decimal number nearest to
\* count / totalVotes * 100; when the poll has no votes every percentage is 0.
C24_PercentageRounded ==
    results # NoResults =>
        /\ results.totalVotes =
              Cardinality({v \in votes : PollOf(v.option) = results.poll})
        /\ \A o \in OptionsOf(results.poll) :
              LET e == results.options[o]
                  d == e.percentage.tenths * results.totalVotes - 1000 * e.voteCount
              IN /\ e.voteCount = VoteCount(o)
                 /\ IF results.totalVotes = 0
                    THEN e.percentage.tenths = 0
                    ELSE /\ e.percentage.decimals = 1
                         /\ 2 * (IF d < 0 THEN -d ELSE d) <= results.totalVotes

C24_Witness ==
    /\ results.poll = "p1" /\ results.totalVotes = 3
    /\ results.options["a"].percentage.tenths = 667
    /\ results.options["b"].percentage.tenths = 333

\* C25 (as stated): whenever no submitVote request, and so no broadcast, is in
\* flight, the snapshot each member of a poll's room received last (poll-data or
\* poll-updated) carries the vote counts now stored for that poll.
C25_QuiescentSnapshotsCurrent ==
    InFlight = {} =>
        \A p \in Polls : \A s \in rooms[p] :
            /\ last[s][p].name \in {"poll-data", "poll-updated"}
            /\ last[s][p].data.counts = PollData(p).counts
            /\ last[s][p].data.total = PollData(p).total

\* C26 (as stated): a request that ends as moved ('Vote updated successfully')
\* changed the votes table; two requests moving one vote to the same option do
\* not both end as moved.
C26_MovedMeansChanged ==
    \A r \in Slots : req[r].status = "moved" => req[r].wrote

\* C27: when two requests of one user for the same option both found no vote of
\* the user on the poll and both ran vote.create, exactly one of them is answered
\* as created and the other with the 409 of the unique index; the user has one
\* row on the poll and broadcastVoteUpdate was called once between them.
C27_ConcurrentCreateOneWins ==
    \A r1, r2 \in Slots :
        (/\ r1 # r2
         /\ req[r1].pc = "respond" /\ req[r2].pc = "respond"
         /\ req[r1].user = req[r2].user /\ req[r1].option = req[r2].option
         /\ req[r1].existing = NoRow /\ req[r2].existing = NoRow
         /\ req[r1].status \in {"created", "conflict409"}
         /\ req[r2].status \in {"created", "conflict409"})
            => /\ {req[r1].status, req[r2].status} = {"created", "conflict409"}
               /\ Cardinality(VotesOf(req[r1].user, req[r1].poll)) = 1
               /\ req[r1].calls + req[r2].calls = 1

C27_Witness ==
    /\ req["r1"].pc = "respond" /\ req["r1"].status = "conflict409"
    /\ req["r1"].existing = NoRow
    /\ req["r2"].pc = "respond" /\ req["r2"].status = "created"
    /\ req["r1"].user = req["r2"].user /\ req["r1"].option = req["r2"].option
    /\ Cardinality(votes) = 1

\* C28: the votes table changes only in the write of a submitVote request, and
\* that write leaves every row that is not a vote of the request's user on the
\* request's poll as it was; a request that fails changes no row.
C28_OnlyOwnVoteChanges ==
    [][/\ votes' # votes =>
            \E r \in Slots :
               /\ req[r].pc = "write" /\ req'[r].status \in {"created", "moved"}
               /\ {v \in votes' : ~(v.user = req[r].user /\ PollOf(v.option) = req[r].poll)}
                    = {v \in votes : ~(v.user = req[r].user /\ PollOf(v.option) = req[r].poll)}
       /\ \A r \in Slots :
            (req'[r].status \notin {"none", "created", "moved"} /\ req'[r].status # req[r].status)
               => votes' = votes]_vars

C28_Witness ==
    \E r \in Slots :
        /\ req[r].status = "moved" /\ req[r].wrote
        /\ \E v \in votes : v.user # req[r].user /\ PollOf(v.option) = req[r].poll
        /\ \E v \in votes : v.user = req[r].user /\ PollOf(v.option) # req[r].poll

\* C29: a request that ended as created or moved reaches its response only out
\* of its own broadcastVoteUpdate, either from the emit or from the read that
\* failed or found no poll, and the response is sent only from there; until
\* then the request holds exactly one broadcast call.
C29_ResponseAfterBroadcast ==
    /\ [](\A r \in Slots :
            req[r].status \in {"created", "moved"} =>
               /\ req[r].pc \in {"bcastRead", "bcastEmit", "respond"}
               /\ req[r].calls = 1
               /\ req[r].pc = "respond" => req[r].snap = NoSnap)
    /\ [][\A r \in Slots :
            /\ (req'[r].status \in {"created", "moved"}
                /\ req'[r].pc = "respond" /\ req[r].pc # "respond")
                  => (req[r].pc \in {"bcastRead", "bcastEmit"} /\ req[r].status = req'[r].status)
            /\ (req[r].status \in {"created", "moved"} /\ req'[r].pc = "idle")
                  => req[r].pc = "respond"]_vars

C29_Witness ==
    \E r \in Slots :
        /\ req[r].pc = "respond" /\ req[r].status = "moved" /\ req[r].wrote
        /\ req[r].calls = 1 /\ ~unsent[req[r].poll]

====
